---- MODULE Spec2Model ----
(***************************************************************************)
(* The pipeline driver of bin/main.py (brain tissue segmentation with a    *)
(* decision forest) as a state machine.  main() is one sequential routine; *)
(* every action below is one of its steps, in program order, and pc is the *)
(* position of main.  The only concurrency is the worker pool that         *)
(* post_process_batch runs with multi_process=True.                        *)
(*                                                                         *)
(* Volumes, predictions and feature rows are modelled by what identifies   *)
(* them (which subject, which modality, which voxel, which model), so that *)
(* "subject i's own prediction" and "row k belongs to the same voxel" are  *)
(* things a state can get wrong.                                           *)
(***************************************************************************)
EXTENDS Integers, Sequences, FiniteSets, TLC

\* ------------------------------------------------------------------ bounds
MaxTrain == 2      \* at most this many subjects in data_train_dir
MaxTest == 2       \* at most this many subjects in data_test_dir
MaxRows == 2       \* at most this many in-mask voxels per training subject
NumWorkers == 2    \* size of the post-processing worker pool

Workers == 1..NumWorkers

\* ------------------------------------------------------------- state
VARIABLES
    pc,                       \* position of main
    error,                    \* the exception that ended main, if any
    train_dir,                \* input: rows (in-mask voxels) of each training subject
    test_dir,                 \* input: number of test subjects
    default_BraTS,            \* input: the value init_global_variable gives evaluate_BraTS
    pre_process_params,       \* the configuration dictionary of main
    evaluate_BraTS,           \* putil.evaluate_BraTS
    feature_mean_intensities, \* putil.feature_mean_intensities
    feature_std_intensities,  \* putil.feature_std_intensities
    norm_method,
    artifact_method,
    images,                   \* pre-processed training subjects
    images_test,              \* pre-processed test subjects
    batch_calls,              \* history: the pre_process_batch calls made
    reports,                  \* history: what each statistics report read
    files,                    \* the files written so far, each a name and a content
    data_train,
    labels_train,
    forest,                   \* the RandomForestClassifier
    forest_ops,               \* history: operations on the forest
    result_dir,               \* the timestamped result directory exists
    evaluator,                \* the evaluator's record list
    images_prediction,
    images_probabilities,
    images_post_processed,
    pool,                     \* the worker pool of post_process_batch
    i                         \* loop index of main's loops over images_test

vars == <<pc, error, train_dir, test_dir, default_BraTS, pre_process_params,
          evaluate_BraTS, feature_mean_intensities, feature_std_intensities,
          norm_method, artifact_method, images, images_test, batch_calls,
          reports, files, data_train, labels_train, forest, forest_ops,
          result_dir, evaluator, images_prediction, images_probabilities,
          images_post_processed, pool, i>>

\* groups of variables, for UNCHANGED
inputs == <<train_dir, test_dir, default_BraTS>>
globals == <<evaluate_BraTS, feature_mean_intensities, feature_std_intensities>>
methods == <<norm_method, artifact_method>>
training == <<data_train, labels_train, forest, forest_ops>>
testing == <<evaluator, images_prediction, images_probabilities,
             images_post_processed, pool, i>>

\* ------------------------------------------------------------- helpers
NoError == [at |-> "none", subject |-> 0]
NoArray == [shape |-> <<>>, data |-> <<>>]
IdlePool == [queue |-> <<>>, running |-> [w \in Workers |-> 0], completed |-> <<>>]

RECURSIVE SumSeq(_)
SumSeq(s) == IF s = <<>> THEN 0 ELSE Head(s) + SumSeq(Tail(s))

RECURSIVE Flatten(_)
Flatten(ss) == IF ss = <<>> THEN <<>> ELSE Head(ss) \o Flatten(Tail(ss))

\* numpy.concatenate along axis 0 of a non-empty list of arrays
concatenate(arrays) ==
    [shape |-> <<SumSeq([k \in 1..Len(arrays) |-> arrays[k].shape[1]])>>
               \o Tail(arrays[1].shape),
     data  |-> Flatten([k \in 1..Len(arrays) |-> arrays[k].data])]

\* numpy.ndarray.squeeze: every axis of length one is removed
squeeze(a) == [shape |-> SelectSeq(a.shape, LAMBDA d : d # 1), data |-> a.data]

\* the number of rows of an array; a zero-dimensional array has none (-1)
RowCount(a) == IF a.shape = <<>> THEN -1 ELSE a.shape[1]

\* the columns the enabled feature channels give a feature matrix
NumFeatures(params) ==
    (IF params.coordinates_feature THEN 3 ELSE 0)
    + (IF params.intensity_feature THEN 2 ELSE 0)
    + (IF params.gradient_intensity_feature THEN 2 ELSE 0)

\* putil.init_global_variable: the three module globals it (re)initializes
init_global_variable ==
    [evaluate_BraTS |-> default_BraTS,
     feature_mean_intensities |-> <<>>,
     feature_std_intensities |-> <<>>]

\* an image: what it shows, of which subject of which directory, and (for a
\* prediction) which fit of the forest produced it
Volume(kind, pass, id, model) == [kind |-> kind, pass |-> pass, id |-> id, model |-> model]

\* a file name: directory, prefix, subject identifier, suffix
FileName(dir, prefix, id, suffix) == [dir |-> dir, prefix |-> prefix, id |-> id, suffix |-> suffix]

\* one subject as putil.pre_process_batch returns it: its volumes, and its
\* feature matrix and label vector with one row per in-mask voxel, in the
\* same voxel order
BrainImage(pass, id, rows, params) ==
    [id_ |-> id,
     images |-> [T1w |-> Volume("T1w", pass, id, 0),
                 T2w |-> Volume("T2w", pass, id, 0),
                 GroundTruth |-> Volume("GroundTruth", pass, id, 0),
                 BrainMask |-> Volume("BrainMask", pass, id, 0)],
     feature_matrix |->
        <<[shape |-> <<rows, NumFeatures(params)>>,
           data |-> [v \in 1..rows |-> <<id, v>>]],
          [shape |-> <<rows, 1>>,
           data |-> [v \in 1..rows |-> <<id, v>>]]>>]

\* putil.pre_process_batch with multi_process=False: the subjects in input
\* order, and one statistics entry appended per subject
pre_process_batch(pass, rows_of, params) ==
    [images |-> [k \in 1..Len(rows_of) |-> BrainImage(pass, k, rows_of[k], params)],
     stats  |-> [k \in 1..Len(rows_of) |-> <<pass, k>>]]

\* ------------------------------------------------------------- Init
\* lines 66-72: pre_process_params as written
Params ==
    [skullstrip_pre |-> TRUE,
     normalization_pre |-> FALSE,
     artifact_pre |-> FALSE,
     registration_pre |-> FALSE,
     coordinates_feature |-> TRUE,
     intensity_feature |-> TRUE,
     gradient_intensity_feature |-> TRUE]

\* the training directories: any number of subjects up to MaxTrain, each
\* with up to MaxRows in-mask voxels
TrainDirs == UNION {[1..n -> 0..MaxRows] : n \in 0..MaxTrain}

\* The state at the entry of main.  The directories are the run's inputs.
\* Of the dictionary of lines 66-72 the two switches main itself branches on
\* (normalization_pre, artifact_pre) take either value; the literal sets both
\* to False.  The body of putil.init_global_variable is not part of this
\* file, so the value it gives evaluate_BraTS is left open.

Init ==
    /\ pc = "start"
    /\ error = NoError
    /\ train_dir \in TrainDirs
    /\ test_dir \in 0..MaxTest
    /\ default_BraTS \in BOOLEAN
    /\ \E np \in BOOLEAN, ap \in BOOLEAN :
          pre_process_params =
              [Params EXCEPT !.normalization_pre = np, !.artifact_pre = ap]
    /\ evaluate_BraTS = FALSE
    /\ feature_mean_intensities = <<>>
    /\ feature_std_intensities = <<>>
    /\ norm_method = "z"
    /\ artifact_method = "zero frequencies"
    /\ images = <<>>
    /\ images_test = <<>>
    /\ batch_calls = <<>>
    /\ reports = <<>>
    /\ files = {}
    /\ data_train = NoArray
    /\ labels_train = NoArray
    /\ forest = [version |-> 0]
    /\ forest_ops = <<>>
    /\ result_dir = FALSE
    /\ evaluator = <<>>
    /\ images_prediction = <<>>
    /\ images_probabilities = <<>>
    /\ images_post_processed = <<>>
    /\ pool = IdlePool
    /\ i = 0

\* ------------------------------------------------------------- steps of main
\* sitk.WriteImage(content, name): the file of that name is (over)written
WriteImage(fs, name, content) ==
    {f \in fs : f.name # name} \cup {[name |-> name, content |-> content]}

\* lines 87-90: the normalization method the batches are given
NormMethod(params) == IF ~params.normalization_pre THEN "no" ELSE "z"

\* lines 95-98: the artifact method of the run
ArtifactMethod_always(params) == "zero frequencies"
ArtifactMethod(params) ==
    IF ~params.artifact_pre THEN "none" ELSE "zero frequencies"

\* lines 52-98: seeds, atlas, crawler, globals and the run's parameters
Start ==
    /\ pc = "start"
    /\ evaluate_BraTS' = TRUE
    /\ feature_mean_intensities' = init_global_variable.feature_mean_intensities
    /\ feature_std_intensities' = init_global_variable.feature_std_intensities
    /\ norm_method' = NormMethod(pre_process_params)
    /\ artifact_method' = ArtifactMethod(pre_process_params)
    /\ pc' = "train_pre"
    /\ UNCHANGED <<error, inputs, pre_process_params, images, images_test,
                   batch_calls, reports, files, training, result_dir, testing>>

\* lines 100-102: the training batch, always called with artifact_method='none'
PreProcessTraining ==
    /\ pc = "train_pre"
    /\ LET out == pre_process_batch("train", train_dir, pre_process_params) IN
          /\ images' = out.images
          /\ feature_mean_intensities' = feature_mean_intensities \o out.stats
          /\ feature_std_intensities' = feature_std_intensities \o out.stats
    /\ batch_calls' = Append(batch_calls,
          [pass |-> "train", artifact_method |-> "none",
           artifact_pre |-> pre_process_params.artifact_pre,
           evaluate_BraTS |-> evaluate_BraTS,
           stats_at_call |-> feature_mean_intensities \o feature_std_intensities])
    /\ pc' = "plot"
    /\ UNCHANGED <<error, inputs, pre_process_params, evaluate_BraTS, methods,
                   images_test, reports, files, training, result_dir, testing>>

\* lines 104-129: plot_hist is True; images[0] raises IndexError on an empty batch
PlotHist ==
    /\ pc = "plot"
    /\ IF images = <<>>
          THEN /\ pc' = "aborted"
               /\ error' = [at |-> "plot", subject |-> 0]
               /\ files' = files
          ELSE /\ pc' = "save_norm"
               /\ error' = error
               /\ files' = WriteImage(WriteImage(files,
                      FileName("plots", "Result_Hist_norm-" \o norm_method, 0, "_T1w.png"),
                      Volume("kde-T1w", "train", images[1].id_, 0)),
                      FileName("plots", "Result_Hist_norm-" \o norm_method, 0, "_T2w.png"),
                      Volume("kde-T2w", "train", images[1].id_, 0))
    /\ UNCHANGED <<inputs, pre_process_params, globals, methods, images,
                   images_test, batch_calls, reports, training, result_dir, testing>>

\* lines 133-136: the two inspection files of one training subject
RECURSIVE SaveNorm(_, _)
SaveNorm(fs, k) ==
    IF k > Len(images) THEN fs
    ELSE LET save_to_t1w == FileName("norm images", norm_method \o "-norm_",
                                     images[k].id_, "_T1w.nii.gz")
             save_to_t2w == FileName("norm images", norm_method \o "-norm_",
                                     images[k].id_, "_T2w.nii.gz")
         IN  SaveNorm(WriteImage(WriteImage(fs, save_to_t1w, images[k].images.T1w),
                                 save_to_t2w, images[k].images.T1w), k + 1)

\* lines 131-136: the loop over the training subjects
SaveNormImages ==
    /\ pc = "save_norm"
    /\ files' = SaveNorm(files, 1)
    /\ pc' = "train_report"
    /\ UNCHANGED <<error, inputs, pre_process_params, globals, methods, images,
                   images_test, batch_calls, reports, training, result_dir, testing>>

\* lines 138-154: the training report reads the lists, then the globals are
\* initialized again
TrainReport_noReset ==
    /\ pc = "train_report"
    /\ reports' = Append(reports,
          [pass |-> "train", mean |-> feature_mean_intensities,
           std |-> feature_std_intensities])
    /\ pc' = "concat"
    /\ UNCHANGED <<error, inputs, pre_process_params, globals, methods, images,
                   images_test, batch_calls, files, training, result_dir, testing>>

TrainReport ==
    /\ pc = "train_report"
    /\ reports' = Append(reports,
          [pass |-> "train", mean |-> feature_mean_intensities,
           std |-> feature_std_intensities])
    /\ evaluate_BraTS' = init_global_variable.evaluate_BraTS
    /\ feature_mean_intensities' = init_global_variable.feature_mean_intensities
    /\ feature_std_intensities' = init_global_variable.feature_std_intensities
    /\ pc' = "concat"
    /\ UNCHANGED <<error, inputs, pre_process_params, methods, images,
                   images_test, batch_calls, files, training, result_dir, testing>>

\* lines 156-165: the aggregated feature matrix and label vector, and the
\* (unfitted) forest
Concatenate ==
    /\ pc = "concat"
    /\ data_train' =
          concatenate([k \in 1..Len(images) |-> images[k].feature_matrix[1]])
    /\ labels_train' =
          squeeze(concatenate([k \in 1..Len(images) |-> images[k].feature_matrix[2]]))
    /\ pc' = "fit"
    /\ UNCHANGED <<error, inputs, pre_process_params, globals, methods, images,
                   images_test, batch_calls, reports, files, forest, forest_ops,
                   result_dir, testing>>

\* forest.fit accepts only a non-empty matrix with one label per row
FitAccepts(X, y) == RowCount(X) > 0 /\ RowCount(y) = RowCount(X)

\* line 168: forest.fit either completes, giving the forest a trained model,
\* or raises, and the exception leaves main
Fit_skipped ==
    /\ pc = "fit"
    /\ pc' = "mkdir"
    /\ UNCHANGED <<error, inputs, pre_process_params, globals, methods, images,
                   images_test, batch_calls, reports, files, training,
                   result_dir, testing>>

Fit_swallowed ==
    /\ pc = "fit"
    /\ forest_ops' = Append(forest_ops, [op |-> "fit", subject |-> 0])
    /\ \E ok \in BOOLEAN :
          /\ ok => FitAccepts(data_train, labels_train)
          /\ IF ok
                THEN /\ forest' = [version |-> forest.version + 1]
                     /\ error' = error
                ELSE /\ forest' = forest
                     /\ error' = [at |-> "fit", subject |-> 0]
    /\ pc' = "mkdir"
    /\ UNCHANGED <<inputs, pre_process_params, globals, methods, images,
                   images_test, batch_calls, reports, files, data_train,
                   labels_train, result_dir, testing>>

Fit ==
    /\ pc = "fit"
    /\ forest_ops' = Append(forest_ops, [op |-> "fit", subject |-> 0])
    /\ \E ok \in BOOLEAN :
          /\ ok => FitAccepts(data_train, labels_train)
          /\ IF ok
                THEN /\ forest' = [version |-> forest.version + 1]
                     /\ error' = error
                     /\ pc' = "mkdir"
                ELSE /\ forest' = forest
                     /\ error' = [at |-> "fit", subject |-> 0]
                     /\ pc' = "aborted"
    /\ UNCHANGED <<inputs, pre_process_params, globals, methods, images,
                   images_test, batch_calls, reports, files, data_train,
                   labels_train, result_dir, testing>>

\* lines 171-185: the timestamped result directory, the evaluator, the crawler
MakeResultDir ==
    /\ pc = "mkdir"
    /\ result_dir' = TRUE
    /\ evaluator' = <<>>
    /\ pc' = "test_pre"
    /\ UNCHANGED <<error, inputs, pre_process_params, globals, methods, images,
                   images_test, batch_calls, reports, files, training,
                   images_prediction, images_probabilities,
                   images_post_processed, pool, i>>

\* lines 187-190: the testing batch, called with the run's artifact method
PreProcessTesting ==
    /\ pc = "test_pre"
    /\ pre_process_params' = [training |-> FALSE] @@ pre_process_params
    /\ LET out == pre_process_batch("test", [k \in 1..test_dir |-> 1],
                                    pre_process_params') IN
          /\ images_test' = out.images
          /\ feature_mean_intensities' = feature_mean_intensities \o out.stats
          /\ feature_std_intensities' = feature_std_intensities \o out.stats
    /\ batch_calls' = Append(batch_calls,
          [pass |-> "test", artifact_method |-> artifact_method,
           artifact_pre |-> pre_process_params.artifact_pre,
           evaluate_BraTS |-> evaluate_BraTS,
           stats_at_call |-> feature_mean_intensities \o feature_std_intensities])
    /\ pc' = "test_report"
    /\ UNCHANGED <<error, inputs, evaluate_BraTS, methods, images, reports,
                   files, training, result_dir, testing>>

\* lines 192-210: the testing report; with no entries the mean is a scalar
\* and indexing it raises
TestReport ==
    /\ pc = "test_report"
    /\ IF Len(feature_mean_intensities) = 0
          THEN /\ pc' = "aborted"
               /\ error' = [at |-> "test_report", subject |-> 0]
               /\ UNCHANGED <<reports, i, images_prediction, images_probabilities>>
          ELSE /\ pc' = "predict"
               /\ error' = error
               /\ reports' = Append(reports,
                     [pass |-> "test", mean |-> feature_mean_intensities,
                      std |-> feature_std_intensities])
               /\ images_prediction' = <<>>
               /\ images_probabilities' = <<>>
               /\ i' = 1
    /\ UNCHANGED <<inputs, pre_process_params, globals, methods, images,
                   images_test, batch_calls, files, training, result_dir,
                   evaluator, images_post_processed, pool>>

\* the tag of a raw evaluation is the subject identifier (line 226)
RawTag(id) == [id |-> id, suffix |-> ""]

\* the tag of a post-processed evaluation is the identifier + '-PP' (line 238)
PPTag_raw(id) == [id |-> id, suffix |-> ""]
PPTag(id) == [id |-> id, suffix |-> "-PP"]

\* evaluator.evaluate: one record appended to the run-wide record set
evaluate(records, image, ground_truth, tag) ==
    Append(records, [image |-> image, ground_truth |-> ground_truth, tag |-> tag])

\* lines 212-229: one iteration of the prediction loop; predict and evaluate
\* may raise, and nothing in main catches the exception
PredictSubject ==
    /\ pc = "predict"
    /\ LET img == images_test[i]
           image_prediction == Volume("prediction", "test", img.id_, forest.version)
           image_probabilities == Volume("probabilities", "test", img.id_, forest.version)
       IN \E outcome \in {"ok", "predict raises", "evaluate raises"} :
          IF outcome = "predict raises"
             THEN /\ forest_ops' = Append(forest_ops, [op |-> "predict", subject |-> img.id_])
                  /\ error' = [at |-> "predict", subject |-> img.id_]
                  /\ pc' = "aborted"
                  /\ UNCHANGED <<evaluator, images_prediction, images_probabilities, i>>
             ELSE /\ forest_ops' = forest_ops
                        \o <<[op |-> "predict", subject |-> img.id_],
                             [op |-> "predict_proba", subject |-> img.id_]>>
                  /\ IF outcome = "evaluate raises"
                        THEN /\ error' = [at |-> "evaluate", subject |-> img.id_]
                             /\ pc' = "aborted"
                             /\ UNCHANGED <<evaluator, images_prediction,
                                            images_probabilities, i>>
                        ELSE /\ evaluator' = evaluate(evaluator, image_prediction,
                                                      img.images.GroundTruth, RawTag(img.id_))
                             /\ images_prediction' = Append(images_prediction, image_prediction)
                             /\ images_probabilities' =
                                   Append(images_probabilities, image_probabilities)
                             /\ error' = error
                             /\ i' = i + 1
                             /\ pc' = IF i = Len(images_test) THEN "post" ELSE "predict"
    /\ UNCHANGED <<inputs, pre_process_params, globals, methods, images,
                   images_test, batch_calls, reports, files, data_train,
                   labels_train, forest, result_dir, images_post_processed, pool>>

\* ------------------------------------------------------------- post_process_batch
\* putil.post_process of one subject: its cleaned segmentation
post_process(img, segmentation, probability) ==
    Volume("post_processed", segmentation.pass, segmentation.id, segmentation.model)

\* the results of the pool put back into the order of the input
InInputOrder(completed) ==
    [k \in 1..Len(completed) |->
        (CHOOSE c \in {completed[j] : j \in 1..Len(completed)} : c.index = k).image]

\* lines 231-234: main hands the three lists to the pool
PostProcessStart ==
    /\ pc = "post"
    /\ pool' = [queue |-> [k \in 1..Len(images_test) |-> k],
                running |-> [w \in Workers |-> 0],
                completed |-> <<>>]
    /\ pc' = "post_pool"
    /\ UNCHANGED <<error, inputs, pre_process_params, globals, methods, images,
                   images_test, batch_calls, reports, files, training, result_dir,
                   evaluator, images_prediction, images_probabilities,
                   images_post_processed, i>>

\* an idle worker takes the next subject
WorkerTake(w) ==
    /\ pc = "post_pool"
    /\ pool.running[w] = 0
    /\ pool.queue # <<>>
    /\ pool' = [pool EXCEPT !.queue = Tail(@), !.running[w] = Head(pool.queue)]
    /\ UNCHANGED <<pc, error, inputs, pre_process_params, globals, methods, images,
                   images_test, batch_calls, reports, files, training, result_dir,
                   evaluator, images_prediction, images_probabilities,
                   images_post_processed, i>>

\* a worker finishes its subject; completion order is the workers' own
WorkerFinish(w) ==
    /\ pc = "post_pool"
    /\ pool.running[w] # 0
    /\ LET k == pool.running[w] IN
          pool' = [pool EXCEPT
             !.running[w] = 0,
             !.completed = Append(@, [index |-> k,
                 image |-> post_process(images_test[k], images_prediction[k],
                                        images_probabilities[k])])]
    /\ UNCHANGED <<pc, error, inputs, pre_process_params, globals, methods, images,
                   images_test, batch_calls, reports, files, training, result_dir,
                   evaluator, images_prediction, images_probabilities,
                   images_post_processed, i>>

\* every subject is done: the batch returns its list
PostProcessJoin ==
    /\ pc = "post_pool"
    /\ pool.queue = <<>>
    /\ \A w \in Workers : pool.running[w] = 0
    /\ images_post_processed' = InInputOrder(pool.completed)
    /\ i' = 1
    /\ pc' = "pp_eval"
    /\ UNCHANGED <<error, inputs, pre_process_params, globals, methods, images,
                   images_test, batch_calls, reports, files, training, result_dir,
                   evaluator, images_prediction, images_probabilities, pool>>

\* lines 237 and 242: the post-processed segmentation main pairs with test
\* subject k
PostProcessedOf_mirrored(k) == images_post_processed[Len(images_post_processed) + 1 - k]
PostProcessedOf(k) == images_post_processed[k]

\* lines 236-242: one iteration of the evaluation-and-save loop
EvaluatePostProcessed ==
    /\ pc = "pp_eval"
    /\ LET img == images_test[i] IN
       \E ok \in BOOLEAN :
          IF ok
             THEN /\ evaluator' = evaluate(evaluator, PostProcessedOf(i),
                                           img.images.GroundTruth, PPTag(img.id_))
                  /\ files' = WriteImage(WriteImage(files,
                         FileName("result_dir", "", images_test[i].id_, "_SEG.mha"),
                         images_prediction[i]),
                         FileName("result_dir", "", images_test[i].id_, "_SEG-PP.mha"),
                         PostProcessedOf(i))
                  /\ error' = error
                  /\ i' = i + 1
                  /\ pc' = IF i = Len(images_test) THEN "done" ELSE "pp_eval"
             ELSE /\ error' = [at |-> "evaluate-PP", subject |-> img.id_]
                  /\ pc' = "aborted"
                  /\ UNCHANGED <<evaluator, files, i>>
    /\ UNCHANGED <<inputs, pre_process_params, globals, methods, images,
                   images_test, batch_calls, reports, training, result_dir,
                   images_prediction, images_probabilities,
                   images_post_processed, pool>>

\* ------------------------------------------------------------- specification
Next ==
    \/ Start
    \/ PreProcessTraining
    \/ PlotHist
    \/ SaveNormImages
    \/ TrainReport
    \/ Concatenate
    \/ Fit
    \/ MakeResultDir
    \/ PreProcessTesting
    \/ TestReport
    \/ PredictSubject
    \/ PostProcessStart
    \/ \E w \in Workers : WorkerTake(w)
    \/ \E w \in Workers : WorkerFinish(w)
    \/ PostProcessJoin
    \/ EvaluatePostProcessed

Spec == Init /\ [][Next]_vars

\* ------------------------------------------------------------- properties
Range(seq) == {seq[k] : k \in 1..Len(seq)}
IsPrefix(s, t) == Len(s) <= Len(t) /\ \A k \in 1..Len(s) : s[k] = t[k]
Terminated == pc \in {"done", "aborted"}

\* C1: the statistics lists are empty at each pre_process_batch call (reset
\* before the training pass and again before the testing pass); the training
\* report reads exactly one entry per training subject; the testing report
\* reads exactly one entry per test subject and none of a training subject.
C1_StatisticsLifecycle ==
    /\ \A c \in Range(batch_calls) : c.stats_at_call = <<>>
    /\ \A r \in Range(reports) :
          LET n == IF r.pass = "train" THEN Len(train_dir) ELSE test_dir IN
             /\ r.mean = [k \in 1..n |-> <<r.pass, k>>]
             /\ r.std = [k \in 1..n |-> <<r.pass, k>>]
    /\ Len(reports) <= 2
    /\ \A k \in 1..Len(reports) : reports[k].pass = IF k = 1 THEN "train" ELSE "test"
    /\ Len(batch_calls) = 2 => batch_calls[1].pass = "train" /\ batch_calls[2].pass = "test"

C1_Witness ==
    /\ Len(reports) = 2
    /\ Len(reports[1].mean) = 2
    /\ Len(reports[2].mean) = 2

\* C2: the forest is fit at most once and exactly once in a run that predicts
\* or completes; the fit has completed before the first predict or
\* predict_proba call; no fit follows a predict; every prediction is made by
\* the model of that one fit.
C2_FitOnceBeforePredict ==
    LET fits == {k \in 1..Len(forest_ops) : forest_ops[k].op = "fit"}
        predicts == {k \in 1..Len(forest_ops) : forest_ops[k].op # "fit"}
    IN  /\ Cardinality(fits) <= 1
        /\ forest.version <= 1
        /\ predicts # {} => /\ fits = {1}
                            /\ forest.version = 1
        /\ pc = "done" => fits = {1}
        /\ \A p \in Range(images_prediction) \cup Range(images_probabilities) :
              p.model = 1
        /\ \A e \in Range(evaluator) : e.image.model = 1

C2_Witness ==
    /\ pc = "done"
    /\ Len(images_prediction) = 2
    /\ Len(forest_ops) = 5

\* C3: after post_process_batch with multi_process=True the returned list has
\* one element per test subject, the k-th being the post-processed
\* segmentation of the k-th subject's prediction, whatever order the workers
\* completed in; every '-PP' evaluation and every '_SEG-PP' file pairs a
\* subject's identifier with that subject's own post-processed prediction and
\* ground truth.
C3_PostProcessedInInputOrder ==
    /\ pc \in {"pp_eval", "done"} =>
          /\ Len(images_post_processed) = Len(images_test)
          /\ \A k \in 1..Len(images_test) :
                images_post_processed[k] =
                   post_process(images_test[k], images_prediction[k],
                                images_probabilities[k])
    /\ \A e \in Range(evaluator) :
          e.tag.suffix = "-PP" =>
             /\ e.image = Volume("post_processed", "test", e.tag.id, forest.version)
             /\ e.ground_truth = images_test[e.tag.id].images.GroundTruth
    /\ \A f \in files :
          f.name.suffix = "_SEG-PP.mha" =>
             f.content = Volume("post_processed", "test", f.name.id, forest.version)

C3_Witness ==
    /\ pc = "done"
    /\ Len(pool.completed) = 2
    /\ pool.completed[1].index = 2
    /\ Len(evaluator) = 4

\* C4: the aggregated feature matrix and the aggregated label vector have the
\* same row count, the sum of the subjects' row counts, and the label at row
\* k is that of the subject and voxel of feature row k.
C4_AggregatedRowsAligned ==
    pc \in {"fit", "mkdir", "test_pre", "test_report", "predict", "post",
            "post_pool", "pp_eval", "done"} =>
       /\ RowCount(data_train) = SumSeq(train_dir)
       /\ RowCount(labels_train) = RowCount(data_train)
       /\ \A k \in 1..RowCount(data_train) : labels_train.data[k] = data_train.data[k]

\* C5: when prediction or evaluation of one test subject fails, every other
\* test subject still has its raw and its post-processed evaluation and both
\* its segmentation files when the run ends.
C5_FailureIsolated ==
    (Terminated /\ error.at \in {"predict", "evaluate"}) =>
       \A k \in 1..Len(images_test) :
          k # error.subject =>
             /\ \E e \in Range(evaluator) : e.tag = RawTag(k)
             /\ \E e \in Range(evaluator) : e.tag = PPTag(k)
             /\ \E f \in files : f.name = FileName("result_dir", "", k, "_SEG.mha")
             /\ \E f \in files : f.name = FileName("result_dir", "", k, "_SEG-PP.mha")

\* C6: the evaluator's records only grow, each step keeping the earlier
\* records as they were; the first n records are the raw evaluations of the
\* n test subjects under their identifiers, the records after them the
\* post-processed evaluations under identifier + '-PP'; no two records share
\* a tag; a completed run has exactly 2n records.
C6_RecordsInOrder ==
    LET n == Len(images_test) IN
       /\ Len(evaluator) <= 2 * n
       /\ pc = "done" => Len(evaluator) = 2 * n
       /\ \A k \in 1..Len(evaluator) :
             IF k <= n
                THEN /\ evaluator[k].tag = [id |-> images_test[k].id_, suffix |-> ""]
                     /\ evaluator[k].image.kind = "prediction"
                ELSE /\ evaluator[k].tag = [id |-> images_test[k - n].id_, suffix |-> "-PP"]
                     /\ evaluator[k].image.kind = "post_processed"
       /\ \A j, k \in 1..Len(evaluator) : j # k => evaluator[j].tag # evaluator[k].tag

C6_AppendOnly == [][IsPrefix(evaluator, evaluator')]_vars /\ []C6_RecordsInOrder

C6_Witness == pc = "done" /\ Len(evaluator) = 4

\* C7: a pre_process_batch call is given an artifact method other than 'none'
\* only if pre_process_params['artifact_pre'] is true; with it false, the
\* training and the testing call are both given 'none'.
C7_ArtifactOnlyWhenEnabled ==
    \A c \in Range(batch_calls) :
       /\ c.artifact_method # "none" => pre_process_params.artifact_pre
       /\ ~c.artifact_pre => c.artifact_method = "none"

C7_Witness ==
    /\ Len(batch_calls) = 2
    /\ ~pre_process_params.artifact_pre
    /\ batch_calls[2].pass = "test"

\* C8: once forest.fit has failed there is no predict call, no evaluation,
\* no '_SEG' or '_SEG-PP' file and no result directory.
C8_FitFailureAborts ==
    error.at = "fit" =>
       /\ \A o \in Range(forest_ops) : o.op = "fit"
       /\ evaluator = <<>>
       /\ \A f \in files : f.name.dir # "result_dir"
       /\ ~result_dir
       /\ pc = "aborted"

C8_Witness == error.at = "fit" /\ pc = "aborted" /\ Len(images) = 2

\* C9: the inspection file '<norm>-norm_<id>_T1w.nii.gz' holds the T1w volume
\* of training subject <id> and '<norm>-norm_<id>_T2w.nii.gz' its T2w volume.
C9_InspectionFilesHoldTheirModality ==
    \A f \in files :
       f.name.dir = "norm images" =>
          /\ f.name.suffix = "_T1w.nii.gz" =>
                f.content = images[f.name.id].images.T1w
          /\ f.name.suffix = "_T2w.nii.gz" =>
                f.content = images[f.name.id].images.T2w

\* C10: evaluate_BraTS, set to True before the training pass, still is True
\* at the testing pre_process_batch call: both passes run in the same mode.
C10_ModeFlagKept ==
    \A c \in Range(batch_calls) : c.evaluate_BraTS = TRUE

====
